---- MODULE Spec2Model ----
(***************************************************************************)
(* Model of hgps.c (usu-gaspacs/harbor): conversion of a Harbor GPS CSV     *)
(* file to columns, with filtering on the satellite count and averaging    *)
(* over windows of avg_secs seconds.                                        *)
(*                                                                         *)
(* One step of the model is one iteration of the read loop of main (one    *)
(* call of fgets), and a last step is the code after the loop.             *)
(* A C float is modelled as an exact rational [n, d] in lowest terms: the  *)
(* inputs are small whole numbers, for which float addition is exact; the  *)
(* rounding of the float division in showAverage is not modelled.  printf  *)
(* is modelled by the tuple of its arguments, not by the characters.       *)
(***************************************************************************)
EXTENDS Integers, Sequences, FiniteSets

(***************************************************************************)
(* Bounds of the model.                                                    *)
(***************************************************************************)
MaxLines == 3      \* lines in the input file
MaxT     == 2      \* largest elapsed time (first field) of a line

(***************************************************************************)
(* Program constants.                                                      *)
(***************************************************************************)
NFields == 11      \* conversions of the sscanf format
IntMax  == 2147483647   \* largest value of an int (32 bits)

(***************************************************************************)
(* float arithmetic                                                        *)
(***************************************************************************)
RECURSIVE Gcd(_, _)
Gcd(a, b) == IF b = 0 THEN a ELSE Gcd(b, a % b)

Abs(x) == IF x < 0 THEN -x ELSE x

\* the rational n/d (d > 0) in lowest terms; d = 0 gives the infinities
\* [n |-> 1, d |-> 0], [n |-> -1, d |-> 0] and the NaN [n |-> 0, d |-> 0]
Rat(n, d) ==
  LET g == Gcd(Abs(n), d)
  IN IF g = 0 THEN [n |-> 0, d |-> 0] ELSE [n |-> n \div g, d |-> d \div g]

F(i) == [n |-> i, d |-> 1]

FAdd(x, y) == Rat(x.n * y.d + y.n * x.d, x.d * y.d)

FSub(x, y) == Rat(x.n * y.d - y.n * x.d, x.d * y.d)

\* x / (float) k, k >= 1
FDiv(x, k) == Rat(x.n, x.d * k)

FGt(x, y) == x.n * y.d > y.n * x.d

FLt(x, y) == FGt(y, x)

FLe(x, y) == ~FGt(x, y)

(***************************************************************************)
(* int arithmetic: C division truncates toward zero.                       *)
(***************************************************************************)
IDiv(a, b) == IF a >= 0 THEN a \div b ELSE -((-a) \div b)

IMod(a, b) == a - b * IDiv(a, b)

\* a + b is out of the range of int
IOverflows(a, b) ==
  IF b >= 0 THEN a > IntMax - b ELSE a < ((-IntMax) - 1) - b

\* a + b on int; a sum out of the range of int wraps around (the terms are
\* moved into the range before they are added)
IAdd(a, b) ==
  IF ~IOverflows(a, b) THEN a + b
  ELSE IF b >= 0 THEN ((a - IntMax) - 1) + ((b - IntMax) - 1)
  ELSE ((a + IntMax) + 1) + ((b + IntMax) + 1)

(***************************************************************************)
(* GPSDATA and the input lines                                             *)
(***************************************************************************)
\* the fields of GPSDATA that sscanf assigns, in the order of the format
Fields ==
  <<"tsecs", "mday", "month", "year", "hour", "minute", "second",
    "lat", "lon", "alt", "nsats">>

\* three successive GPS fixes around midnight of 31 Dec 2023
Fixes ==
  { [mday |-> 31, month |-> 12, year |-> 23, hour |-> 23, minute |-> 59,
     second |-> 58, lat |-> F(10), lon |-> F(20), alt |-> F(5), nsats |-> 5],
    [mday |-> 31, month |-> 12, year |-> 23, hour |-> 23, minute |-> 59,
     second |-> 59, lat |-> F(11), lon |-> F(22), alt |-> F(6), nsats |-> 8],
    [mday |-> 1, month |-> 1, year |-> 24, hour |-> 0, minute |-> 0,
     second |-> 1, lat |-> F(13), lon |-> F(23), alt |-> F(8), nsats |-> 9] }

\* the fix taken at second sec of its minute
FixAt(sec) == CHOOSE x \in Fixes : x.second = sec

\* the record of fix x at elapsed time t with s satellites in view
Record(t, x, s) ==
  [tsecs |-> F(t), mday |-> x.mday, month |-> x.month, year |-> x.year,
   hour |-> x.hour, minute |-> x.minute, second |-> x.second,
   lat |-> x.lat, lon |-> x.lon, alt |-> x.alt, nsats |-> s]

\* The values of the eleven fields of a well-formed data line: each fix at
\* each elapsed time, and the first and the last fix once more with 3
\* satellites in view.
Records ==
  { Record(t, x, x.nsats) : t \in 0..MaxT, x \in Fixes }
    \cup { Record(0, x, 3) : x \in Fixes \ {FixAt(59)} }

\* the leading fields of the data lines that are cut short or garbled
Garbled ==
  [tsecs |-> F(1), mday |-> 15, month |-> 6, year |-> 22, hour |-> 12,
   minute |-> 30, second |-> 30, lat |-> F(40), lon |-> F(50), alt |-> F(9),
   nsats |-> 8]

\* A line of the input: digit = its first character is a decimal digit,
\* nconv = the number of fields the sscanf format converts, f = their values
\* (the values after the first nconv are never read), more = what follows
\* the first 255 characters of the line, <<>> for a line that fits in str.
DataLine(r) == [digit |-> TRUE, nconv |-> NFields, f |-> r, more |-> <<>>]

DataLines == { DataLine(r) : r \in Records }

\* the numbers of fields converted in the lines that are cut short
ShortCounts == {3, 4, NFields - 1}

ShortLines ==
  { [digit |-> TRUE, nconv |-> k, f |-> Garbled, more |-> <<>>] :
      k \in ShortCounts }

TextLines == { [digit |-> FALSE, nconv |-> 0, f |-> Garbled, more |-> <<>>] }

Lines == DataLines \cup ShortLines \cup TextLines

\* argv[2] and argv[3]
AvgSecsArgs == {F(-1), F(0), F(1), F(10)}

MinSatsArgs == {4}

\* the content of raw and avg before anything is stored in them
Blank ==
  [tsecs |-> F(0), mday |-> 0, month |-> 0, year |-> 0, hour |-> 0,
   minute |-> 0, second |-> 0, todaySecs |-> 0, nsats |-> 0,
   lat |-> F(0), lon |-> F(0), alt |-> F(0)]

(***************************************************************************)
(* The functions of hgps.c                                                 *)
(***************************************************************************)
\* sscanf( str, "%f,%d/%d/%d,%d:%d:%d,%f,%f,%f,%d", &raw.tsecs, ... ): the
\* first l.nconv fields of raw are assigned, the others keep their value;
\* the result of the call is l.nconv.
sscanf(l, raw) ==
  [fld \in DOMAIN raw |->
     IF \E i \in 1..l.nconv : Fields[i] = fld THEN l.f[fld] ELSE raw[fld]]

\* the arguments of the printf of an unaveraged line
RawLine(raw) ==
  [kind |-> "raw", tsecs |-> raw.tsecs, mday |-> raw.mday,
   month |-> raw.month, year |-> raw.year, hour |-> raw.hour,
   minute |-> raw.minute, second |-> raw.second, lat |-> raw.lat,
   lon |-> raw.lon, alt |-> raw.alt, nsats |-> raw.nsats]

\* printf( "# %s", str )
CommentLine(l) == [kind |-> "comment", line |-> l]

\* (as Minute, the hours not taken off)
Minute_nohours(todaySecs, hh) == IDiv(todaySecs, 60)

\* mm = (avg->todaySecs-hh*3600)/60
Minute(todaySecs, hh) == IDiv(todaySecs - hh * 3600, 60)

\* showAverage( navg, raw, avg ): the value it leaves in *avg and the lines
\* it prints (none or one)
showAverage(navg, raw, avg) ==
  IF navg < 1 THEN [avg |-> avg, out |-> <<>>]
  ELSE
    LET a == [avg EXCEPT !.tsecs = FDiv(@, navg),
                         !.lat = FDiv(@, navg),
                         !.lon = FDiv(@, navg),
                         !.alt = FDiv(@, navg),
                         !.todaySecs = IDiv(@, navg),
                         !.nsats = IDiv(@, navg)]
        hh == IDiv(a.todaySecs, 3600)
        mm == Minute(a.todaySecs, hh)
        ss == IMod(a.todaySecs, 60)
        late == hh >= 24
    IN [avg |-> a,
        out |-> << [kind |-> "avg", tsecs |-> a.tsecs,
                    mday |-> IF late THEN raw.mday ELSE a.mday,
                    month |-> IF late THEN raw.month ELSE a.month,
                    year |-> IF late THEN raw.year ELSE a.year,
                    hour |-> IF late THEN hh - 24 ELSE hh,
                    minute |-> mm, second |-> ss,
                    lat |-> a.lat, lon |-> a.lon, alt |-> a.alt,
                    nsats |-> a.nsats, navg |-> navg] >>]

\* (as EffectiveHour, no rollover)
EffectiveHour_raw(raw, avg) == raw.hour

\* (as EffectiveHour, an hour equal to the saved one rolls over too)
EffectiveHour_le(raw, avg) ==
  IF raw.hour <= avg.hour THEN raw.hour + 24 ELSE raw.hour

\* if( raw->hour < avg->hour ) hh = raw->hour+24; else hh = raw->hour;
EffectiveHour(raw, avg) ==
  IF raw.hour < avg.hour THEN raw.hour + 24 ELSE raw.hour

\* (as Count, the point not counted)
Count_same(navg) == navg

\* return navg+1
Count(navg) == navg + 1

\* updateAverage( navg, raw, avg ): the value it leaves in *avg and its result
updateAverage(navg, raw, avg) ==
  IF navg < 1
  THEN [avg |-> [avg EXCEPT !.tsecs = raw.tsecs, !.mday = raw.mday,
                            !.month = raw.month, !.year = raw.year,
                            !.hour = raw.hour, !.minute = raw.minute,
                            !.second = raw.second,
                            !.todaySecs = raw.hour * 3600 + raw.minute * 60
                                            + raw.second,
                            !.lat = raw.lat, !.lon = raw.lon,
                            !.alt = raw.alt, !.nsats = raw.nsats],
        navg |-> Count(0)]
  ELSE
    LET hh == EffectiveHour(raw, avg)
    IN [avg |-> [avg EXCEPT !.tsecs = FAdd(@, raw.tsecs),
                            !.todaySecs = IAdd(@, hh * 3600 + raw.minute * 60
                                                  + raw.second),
                            !.lat = FAdd(@, raw.lat),
                            !.lon = FAdd(@, raw.lon),
                            !.alt = FAdd(@, raw.alt),
                            !.nsats = IAdd(@, raw.nsats)],
        navg |-> Count(navg)]

\* The additions to the int sums in updateAverage( navg, raw, avg ) leave
\* the range of int: the behaviour of the program is undefined.
Overflow(navg, raw, avg) ==
  /\ navg >= 1
  /\ \/ IOverflows(avg.todaySecs, EffectiveHour(raw, avg) * 3600
                                      + raw.minute * 60 + raw.second)
     \/ IOverflows(avg.nsats, raw.nsats)

(***************************************************************************)
(* main                                                                    *)
(***************************************************************************)
\* fgets( str, 256, in ): the part of line l that is stored in str
fgets(l) == [l EXCEPT !.more = <<>>]

\* printf( "# %s %s %s %s\n", argv[0], argv[1], argv[2], argv[3] )
Invocation(secs, sats) == [kind |-> "comment", argv |-> <<secs, sats>>]

\* (as NoAveraging, zero seconds average)
NoAveraging_lt(secs) == FLt(secs, F(0))

\* avgSecs <= 0.0
NoAveraging(secs) == FLe(secs, F(0))

\* (as PeriodOver, the period ends one record early)
PeriodOver_ge(tsecs, start, secs) ==
  ~FLt(FSub(tsecs, start), secs) \/ FLt(start, F(0))

\* raw.tsecs-t0 > avgSecs || t0 < 0.0
PeriodOver(tsecs, start, secs) ==
  FGt(FSub(tsecs, start), secs) \/ FLt(start, F(0))

\* The branch an iteration of the read loop takes on line l, from the
\* locals m = [t0, navg, raw, avg] of main and the arguments.
Branch(m, l, avgSecs, minSats) ==
  IF ~l.digit THEN "text"
  ELSE IF l.nconv # NFields THEN "short"
  ELSE IF l.f.nsats < minSats THEN "nolock"
  ELSE IF NoAveraging(avgSecs) THEN "single"
  ELSE IF PeriodOver(l.f.tsecs, m.t0, avgSecs) THEN "period"
  ELSE "accumulate"

\* One iteration of the read loop on line l: the locals after it and the
\* lines it prints.
LoopBody(m, l, avgSecs, minSats) ==
  LET b == Branch(m, l, avgSecs, minSats)
      scanned == IF l.digit THEN sscanf(l, m.raw) ELSE m.raw
      raw == [scanned EXCEPT !.year = @ + 2000]
  IN CASE b = "text" ->
            [m |-> m, out |-> <<CommentLine(l)>>]
       [] b \in {"short", "nolock"} ->
            [m |-> [m EXCEPT !.raw = scanned], out |-> <<CommentLine(l)>>]
       [] b = "single" ->
            [m |-> [m EXCEPT !.raw = raw], out |-> <<RawLine(raw)>>]
       [] b = "period" ->
            LET s == showAverage(m.navg, raw, m.avg)
                u == updateAverage(0, raw, s.avg)
            IN [m |-> [t0 |-> raw.tsecs, navg |-> u.navg, raw |-> raw,
                       avg |-> u.avg],
                out |-> s.out]
       [] b = "accumulate" ->
            LET u == updateAverage(m.navg, raw, m.avg)
            IN [m |-> [m EXCEPT !.navg = u.navg, !.raw = raw,
                                !.avg = u.avg],
                out |-> <<>>]

\* (as AfterLoop, the last period not displayed)
AfterLoop_noflush(m) == [m |-> m, out |-> <<>>]

\* The code after the read loop: showAverage( navg, &raw, &avg ).
AfterLoop(m) ==
  LET s == showAverage(m.navg, m.raw, m.avg)
  IN [m |-> [m EXCEPT !.avg = s.avg], out |-> s.out]

\* (as Locals0, the window start set to 0)
Locals0_zero == [t0 |-> F(0), navg |-> 0, raw |-> Blank, avg |-> Blank]

\* the locals of main when the read loop is entered
Locals0 == [t0 |-> F(-1), navg |-> 0, raw |-> Blank, avg |-> Blank]

(***************************************************************************)
(* hsensor.c: SENSORDATA, showAverage, updateAverage and the read loop of  *)
(* main.  The eighteen fields are floats that the program treats alike.    *)
(***************************************************************************)
NSFields == 18     \* conversions of the sscanf format of hsensor.c

\* the fields of SENSORDATA, in the order of the format
SFields ==
  <<"tsecs", "tmpi", "a1x", "a1y", "a1z", "a2x", "a2y", "a2z", "magx",
    "magy", "magz", "gyrx", "gyry", "gyrz", "humid", "prss", "tmpx", "vbat">>

SFieldSet == { SFields[k] : k \in 1..NSFields }

\* the column of each field in a line of the sensor file
SColumn == [fld \in SFieldSet |-> CHOOSE k \in 1..NSFields : SFields[k] = fld]

\* the content of raw and avg of hsensor.c before anything is stored
SBlank == [fld \in SFieldSet |-> F(0)]

\* sscanf( str, "%f,%f,...", &raw.tsecs, ... ) of hsensor.c
Ssscanf(l, raw) ==
  [fld \in SFieldSet |-> IF SColumn[fld] <= l.nconv THEN l.f[fld] ELSE raw[fld]]

\* the arguments of the printf of a line of hsensor.c, printed at call site
\* kind ("raw" in main, "avg" in showAverage)
SLine(kind, rec) == [kind |-> kind, v |-> rec]

\* (as SNothingToDo, the average of no point displayed)
SNothingToDo_neg(navg) == navg < 0

\* if( navg < 1 ) return;
SNothingToDo(navg) == navg < 1

\* showAverage( navg, avg ) of hsensor.c
SshowAverage(navg, avg) ==
  IF SNothingToDo(navg) THEN [avg |-> avg, out |-> <<>>]
  ELSE LET a == [fld \in SFieldSet |-> FDiv(avg[fld], navg)]
       IN [avg |-> a, out |-> <<SLine("avg", a)>>]

\* updateAverage( navg, raw, avg ) of hsensor.c
SupdateAverage(navg, raw, avg) ==
  IF navg < 1
  THEN [avg |-> [fld \in SFieldSet |-> raw[fld]], navg |-> 0 + 1]
  ELSE [avg |-> [fld \in SFieldSet |-> FAdd(avg[fld], raw[fld])],
        navg |-> navg + 1]

\* avgSecs <= 0.0 (hsensor.c)
SNoAveraging(secs) == FLe(secs, F(0))

\* (as SPeriodOver, the period ends one record early)
SPeriodOver_ge(tsecs, start, secs) ==
  ~FLt(FSub(tsecs, start), secs) \/ FLt(start, F(0))

\* raw.tsecs-t0 > avgSecs || t0 < 0.0 (hsensor.c)
SPeriodOver(tsecs, start, secs) ==
  FGt(FSub(tsecs, start), secs) \/ FLt(start, F(0))

\* the branch an iteration of the read loop of hsensor.c takes on line l
SBranch(m, l, secs) ==
  IF ~l.digit THEN "text"
  ELSE IF l.nconv # NSFields THEN "short"
  ELSE IF SNoAveraging(secs) THEN "single"
  ELSE IF SPeriodOver(l.f.tsecs, m.t0, secs) THEN "period"
  ELSE "accumulate"

\* one iteration of the read loop of hsensor.c on line l
SLoopBody(m, l, secs) ==
  LET b == SBranch(m, l, secs)
      raw == IF l.digit THEN Ssscanf(l, m.raw) ELSE m.raw
  IN CASE b = "text" ->
            [m |-> m, out |-> <<CommentLine(l)>>]
       [] b = "short" ->
            [m |-> [m EXCEPT !.raw = raw], out |-> <<CommentLine(l)>>]
       [] b = "single" ->
            [m |-> [m EXCEPT !.raw = raw], out |-> <<SLine("raw", raw)>>]
       [] b = "period" ->
            LET s == SshowAverage(m.navg, m.avg)
                u == SupdateAverage(0, raw, s.avg)
            IN [m |-> [t0 |-> raw.tsecs, navg |-> u.navg, raw |-> raw,
                       avg |-> u.avg],
                out |-> s.out]
       [] b = "accumulate" ->
            LET u == SupdateAverage(m.navg, raw, m.avg)
            IN [m |-> [m EXCEPT !.navg = u.navg, !.raw = raw,
                                !.avg = u.avg],
                out |-> <<>>]

\* the code after the read loop of hsensor.c: showAverage( navg, &avg )
SAfterLoop(m) ==
  LET s == SshowAverage(m.navg, m.avg)
  IN [m |-> [m EXCEPT !.avg = s.avg], out |-> s.out]

\* the locals of main of hsensor.c when the read loop is entered
SLocals0 == [t0 |-> F(-1), navg |-> 0, raw |-> SBlank, avg |-> SBlank]

\* The line of the sensor file that the logger writes with line l of the
\* GPS file: a text line with a text line, a line cut short with a line cut
\* short, a record with a record of the same elapsed time.
Companion(l) ==
  [digit |-> l.digit,
   nconv |-> IF l.nconv = NFields THEN NSFields ELSE l.nconv,
   f |-> [fld \in SFieldSet |->
            IF fld = "tsecs" THEN l.f.tsecs
            ELSE F(l.f.second + SColumn[fld])],
   more |-> <<>>]

(***************************************************************************)
(* State                                                                   *)
(***************************************************************************)
VARIABLES
  argc,       \* number of arguments, the program name included
  canOpen,    \* fopen( argv[1], "r" ) will succeed
  avgSecs,    \* atof( argv[2] )
  minSats,    \* atoi( argv[3] )
  t0,         \* start time of the open period, negative before the first
  navg,       \* number of points in the open period
  raw,        \* the record of the last sscanf
  avg,        \* the sums of the open period
  str,        \* the line read last
  rest,       \* what follows str on its line of the file, <<>> or <<l>>
  file,       \* the input file: "none", "open" or "closed"
  banner,     \* the invocation comment printed, <<>> or <<line>>
  out,        \* the lines printed after the invocation comment
  pc,         \* "start", "loop" in the read loop, "done" after
              \* exit(EXIT_SUCCESS), "failed" after exit(EXIT_FAILURE),
              \* "undefined" when an int overflow has stopped the program
  nread,      \* number of calls of fgets that returned a line
  ub,         \* an int sum has left the range of int
  sen,        \* hsensor run on the sensor file of the same logger: its
              \* locals m, the lines it has printed and their history;
              \* <<>> when it is not run
  \* history of the run, read by the properties only
  valids,     \* the valid records read, in order
  validAt,    \* validAt[i] = the call of fgets that read valids[i]
  src,        \* src[i] = the call of fgets after which out[i] was printed
  win,        \* the valid records read since the last averaged line
  flushes,    \* one entry for each averaged line printed
  nNoLock,    \* number of complete records of fewer than minSats satellites
  nBad,       \* number of lines that are not complete records
  clean       \* the same program run on the valid records of the input only

vars ==
  <<argc, canOpen, avgSecs, minSats, t0, navg, raw, avg, str, rest, file,
    banner, out, pc, nread, ub, sen, valids, validAt, src, win, flushes,
    nNoLock, nBad, clean>>

\* the variables of the read loop
loopVars ==
  <<t0, navg, raw, avg, str, rest, out, nread, ub, sen, valids, validAt, src,
    win, flushes, nNoLock, nBad, clean>>

Locals == [t0 |-> t0, navg |-> navg, raw |-> raw, avg |-> avg]

Averaging == FGt(avgSecs, F(0))

\* l is a complete record: it starts with a digit and has all the fields
Complete(l) == l.digit /\ l.nconv = NFields

\* l is a valid record: a complete record with enough satellites
Valid(l) == Complete(l) /\ l.f.nsats >= minSats

\* the record of a valid line, with the full year
RecordOf(l) == [l.f EXCEPT !.year = @ + 2000]

IsAvg(o) == o.kind = "avg"

AvgLines(s) == SelectSeq(s, IsAvg)

\* the history and the locals when main is entered
Entry ==
  /\ raw = Locals0.raw
  /\ avg = Locals0.avg
  /\ str = <<>>
  /\ rest = <<>>
  /\ out = <<>>
  /\ nread = 0
  /\ ub = FALSE
  /\ valids = <<>>
  /\ validAt = <<>>
  /\ src = <<>>
  /\ win = <<>>
  /\ flushes = <<>>
  /\ nNoLock = 0
  /\ nBad = 0
  /\ clean = [m |-> Locals0, out |-> <<>>]

\* main is entered
ProgInit ==
  /\ argc \in {3, 4}
  /\ canOpen \in BOOLEAN
  /\ avgSecs \in AvgSecsArgs
  /\ minSats \in MinSatsArgs
  /\ t0 = F(0)
  /\ navg = 0
  /\ file = "none"
  /\ banner = <<>>
  /\ pc = "start"
  /\ sen = <<>>
  /\ Entry

\* the read loop is entered: lines 72 to 91 are done
AtLoop ==
  /\ argc = 4
  /\ canOpen = TRUE
  /\ avgSecs \in AvgSecsArgs
  /\ minSats \in MinSatsArgs
  /\ t0 = Locals0.t0
  /\ navg = Locals0.navg
  /\ file = "open"
  /\ banner = <<Invocation(avgSecs, minSats)>>
  /\ pc = "loop"
  /\ Entry

\* hgps alone, at its read loop
Init == AtLoop /\ sen = <<>>

\* (as Usage, after the invocation comment is printed)
Usage_banner ==
  /\ pc = "start"
  /\ argc # 4
  /\ banner' = <<Invocation(avgSecs, minSats)>>
  /\ pc' = "failed"
  /\ UNCHANGED <<argc, canOpen, avgSecs, minSats, file>>
  /\ UNCHANGED loopVars

\* line 72: wrong number of arguments
Usage ==
  /\ pc = "start"
  /\ argc # 4
  /\ pc' = "failed"
  /\ UNCHANGED <<argc, canOpen, avgSecs, minSats, file, banner>>
  /\ UNCHANGED loopVars

\* line 80: the input file cannot be opened
NoFile ==
  /\ pc = "start"
  /\ argc = 4
  /\ ~canOpen
  /\ pc' = "failed"
  /\ UNCHANGED <<argc, canOpen, avgSecs, minSats, file, banner>>
  /\ UNCHANGED loopVars

\* lines 80 to 91: the file is open, the invocation is printed
Start ==
  /\ pc = "start"
  /\ argc = 4
  /\ canOpen
  /\ file' = "open"
  /\ banner' = <<Invocation(avgSecs, minSats)>>
  /\ t0' = Locals0.t0
  /\ navg' = Locals0.navg
  /\ pc' = "loop"
  /\ UNCHANGED <<argc, canOpen, avgSecs, minSats, raw, avg, str, rest, out,
                 nread, ub, sen, valids, validAt, src, win, flushes, nNoLock,
                 nBad, clean>>

\* the other run after line l, which it reads when keep holds
Other(o, l, keep) ==
  IF keep
  THEN LET r == LoopBody(o.m, l, avgSecs, minSats)
       IN [m |-> r.m, out |-> o.out \o AvgLines(r.out)]
  ELSE o

\* the other run after the end of its input
OtherEnd(o) ==
  LET r == AfterLoop(o.m) IN [m |-> r.m, out |-> o.out \o r.out]

\* An iteration of the read loop: fgets reads the first 255 characters of
\* line l, and the iteration takes branch b.
Iterate(l, b) ==
  /\ pc = "loop"
  /\ nread + 1 + Len(l.more) <= MaxLines
  /\ Branch(Locals, fgets(l), avgSecs, minSats) = b
  /\ LET r == LoopBody(Locals, fgets(l), avgSecs, minSats)
         printed == AvgLines(r.out) # <<>>
         member == Valid(fgets(l)) /\ Averaging
     IN /\ t0' = r.m.t0
        /\ navg' = r.m.navg
        /\ raw' = r.m.raw
        /\ avg' = r.m.avg
        /\ out' = out \o r.out
        /\ src' = src \o [i \in 1..Len(r.out) |-> nread + 1]
        /\ flushes' = IF printed
                      THEN Append(flushes, [members |-> win, eof |-> FALSE,
                                            by |-> <<fgets(l)>>,
                                            at |-> Len(out) + 1,
                                            rd |-> nread + 1])
                      ELSE flushes
        /\ win' = IF member
                  THEN (IF printed THEN <<RecordOf(l)>>
                        ELSE Append(win, RecordOf(l)))
                  ELSE (IF printed THEN <<>> ELSE win)
  /\ ub' = (ub \/ (b = "accumulate" /\ Overflow(navg, l.f, avg)))
  /\ str' = fgets(l)
  /\ rest' = l.more
  /\ nread' = nread + 1
  /\ valids' = IF Valid(fgets(l)) THEN Append(valids, RecordOf(l)) ELSE valids
  /\ validAt' = IF Valid(fgets(l)) THEN Append(validAt, nread + 1)
                ELSE validAt
  /\ nBad' = IF Complete(fgets(l)) THEN nBad ELSE nBad + 1
  /\ nNoLock' = IF Complete(fgets(l)) /\ ~Valid(fgets(l)) THEN nNoLock + 1
                ELSE nNoLock
  /\ clean' = Other(clean, fgets(l), Valid(fgets(l)))
  /\ UNCHANGED <<argc, canOpen, avgSecs, minSats, file, banner, pc>>

\* the branches of an iteration of the read loop
GpsBranches ==
  {"text", "short", "nolock", "single", "period", "accumulate"}

\* what fgets can read next from a file of lines L: what is left of the line
\* read last, or else any line
Input(L) == IF rest = <<>> THEN L ELSE {rest[1]}

\* hgps reads from a file of lines L and the iteration takes branch b
Read(L, b) ==
  /\ \E l \in Input(L) : Iterate(l, b)
  /\ UNCHANGED sen

\* line 94: not a data record
PassText == Read(Lines, "text")

\* line 99: insufficient data
PassShort == Read(Lines, "short")

\* line 107: no GPS lock
PassNoLock == Read(Lines, "nolock")

\* line 114: no averaging
PrintSingle == Read(Lines, "single")

\* line 120: display the average of the last period and start a new one
NewPeriod == Read(Lines, "period")

\* line 126: accumulate data for the next average
Accumulate == Read(Lines, "accumulate")

\* fgets returns NULL: the code after the loop
Exit ==
  /\ pc = "loop"
  /\ rest = <<>>
  /\ LET r == AfterLoop(Locals)
     IN /\ avg' = r.m.avg
        /\ out' = out \o r.out
        /\ src' = src \o [i \in 1..Len(r.out) |-> nread + 1]
        /\ flushes' = IF AvgLines(r.out) # <<>>
                      THEN Append(flushes, [members |-> win, eof |-> TRUE,
                                            by |-> <<>>, at |-> Len(out) + 1,
                                            rd |-> nread + 1])
                      ELSE flushes
        /\ win' = IF AvgLines(r.out) # <<>> THEN <<>> ELSE win
  /\ file' = "closed"
  /\ pc' = "done"
  /\ clean' = OtherEnd(clean)
  /\ UNCHANGED <<argc, canOpen, avgSecs, minSats, t0, navg, raw, str, rest,
                 banner, nread, ub, valids, validAt, nNoLock, nBad>>

Finish == Exit /\ UNCHANGED sen

Next ==
  \/ PassText
  \/ PassShort
  \/ PassNoLock
  \/ PrintSingle
  \/ NewPeriod
  \/ Accumulate
  \/ Finish

Spec == Init /\ [][Next]_vars

(***************************************************************************)
(* hgps from the entry of main, on a file that can have lines of more than *)
(* 255 characters: fgets( str, 256, in ) returns the first 255 characters  *)
(* of such a line, and what is left of it at the next call.  A line l of   *)
(* the file is its first 255 characters with, in l.more, what is left.     *)
(***************************************************************************)
\* two text lines of different content
ProgTexts ==
  TextLines
    \cup { [digit |-> FALSE, nconv |-> 0,
            f |-> Record(0, FixAt(58), FixAt(58).nsats), more |-> <<>>] }

\* what is left of a long line after its first 255 characters: text, or text
\* that starts with a digit and reads as a record
Tails == TextLines \cup { DataLine(Record(1, FixAt(1), FixAt(1).nsats)) }

\* text lines of 256 to 510 characters
LongLines ==
  { [digit |-> FALSE, nconv |-> 0, f |-> Garbled, more |-> <<c>>] :
      c \in Tails }

\* the lines of the file
ProgLines ==
  ProgTexts \cup LongLines
    \cup { DataLine(Record(0, FixAt(59), FixAt(59).nsats)),
           DataLine(Record(MaxT, FixAt(1), FixAt(1).nsats)),
           DataLine(Record(1, FixAt(58), 3)) }
    \cup { l \in ShortLines : l.nconv = 3 }

\* the iterations of the read loop on this file, by branch
ReadProg(b) == Read(ProgLines, b)

ProgNext ==
  \/ Usage
  \/ NoFile
  \/ Start
  \/ \E b \in GpsBranches : ReadProg(b)
  \/ Finish

ProgSpec == ProgInit /\ [][ProgNext]_vars

(***************************************************************************)
(* hgps on a long file of records of one window.  The first Many lines of  *)
(* the file are the same record, of the fix of 23:59:59 at elapsed time 0, *)
(* and the first states are those of the program when it has read them:    *)
(* the lines read, and the history, are counted from there.  The sum of    *)
(* the times of day of Many such records is the last that fits an int.     *)
(***************************************************************************)
\* the repeated record, as it is in raw
Late == RecordOf(DataLine(Record(0, FixAt(59), FixAt(59).nsats)))

\* hour*3600 + minute*60 + second of record r
SecsOf(r) == r.hour * 3600 + r.minute * 60 + r.second

\* the number of records read
Many == IntMax \div SecsOf(Late)

\* avg after updateAverage has added up Many records Late
ManySum ==
  [updateAverage(0, Late, Blank).avg EXCEPT
     !.todaySecs = Many * SecsOf(Late),
     !.nsats = Many * Late.nsats,
     !.lat = F(Many * Late.lat.n),
     !.lon = F(Many * Late.lon.n),
     !.alt = F(Many * Late.alt.n)]

\* the read loop after Many records Late
ManyInit ==
  /\ argc = 4
  /\ canOpen = TRUE
  /\ avgSecs \in {a \in AvgSecsArgs : FGt(a, F(0))}
  /\ minSats \in MinSatsArgs
  /\ t0 = Late.tsecs
  /\ navg = Many
  /\ raw = Late
  /\ avg = ManySum
  /\ str = fgets(DataLine(Record(0, FixAt(59), FixAt(59).nsats)))
  /\ rest = <<>>
  /\ file = "open"
  /\ banner = <<Invocation(avgSecs, minSats)>>
  /\ out = <<>>
  /\ pc = "loop"
  /\ nread = 0
  /\ ub = FALSE
  /\ sen = <<>>
  /\ valids = <<>>
  /\ validAt = <<>>
  /\ src = <<>>
  /\ win = <<>>
  /\ flushes = <<>>
  /\ nNoLock = 0
  /\ nBad = 0
  /\ clean = [m |-> [t0 |-> Late.tsecs, navg |-> Many, raw |-> Late,
                     avg |-> ManySum],
              out |-> <<>>]

\* the lines that follow in the file
ManyLines ==
  { DataLine(Record(0, FixAt(59), FixAt(59).nsats)),
    DataLine(Record(1, FixAt(58), FixAt(58).nsats)),
    DataLine(Record(MaxT, FixAt(1), FixAt(1).nsats)),
    DataLine(Record(1, FixAt(59), 3)) }
    \cup { l \in ShortLines : l.nconv = 3 }
    \cup TextLines

\* the iterations of the read loop on this file, by branch; an int sum that
\* leaves the range of int is stored wrapped around
ReadMany(b) == Read(ManyLines, b)

\* line 126: the addition to an int sum leaves the range of int, and the
\* program is stopped (a build that traps on overflow)
Trap ==
  /\ pc = "loop"
  /\ \E l \in Input(ManyLines) :
       /\ nread + 1 + Len(l.more) <= MaxLines
       /\ Branch(Locals, fgets(l), avgSecs, minSats) = "accumulate"
       /\ Overflow(navg, sscanf(fgets(l), raw), avg)
       /\ str' = fgets(l)
       /\ raw' = sscanf(fgets(l), raw)
  /\ nread' = nread + 1
  /\ ub' = TRUE
  /\ pc' = "undefined"
  /\ UNCHANGED <<argc, canOpen, avgSecs, minSats, t0, navg, avg, rest, file,
                 banner, out, sen, valids, validAt, src, win, flushes,
                 nNoLock, nBad, clean>>

ManyNext ==
  \/ \E b \in GpsBranches \ {"single"} : ReadMany(b)
  \/ Trap
  \/ Finish

OverflowSpec == ManyInit /\ [][ManyNext]_vars

(***************************************************************************)
(* hgps and hsensor run with the same avg_secs on the two files of one     *)
(* logger, which have a line each for every time the logger writes.  A     *)
(* step is an iteration of the read loop of each.                          *)
(***************************************************************************)
\* hsensor when its read loop is entered (lines 67 to 84 of hsensor.c)
SenEntry == [m |-> SLocals0, out |-> <<>>, win |-> <<>>, flushes |-> <<>>]

PairInit == AtLoop /\ sen = SenEntry

\* l is a complete sensor record
SComplete(l) == l.digit /\ l.nconv = NSFields

SIsAvg(o) == o.kind = "avg"

\* an iteration of the read loop of hsensor.c on line l, taking branch b
SIterate(l, b) ==
  /\ SBranch(sen.m, l, avgSecs) = b
  /\ LET r == SLoopBody(sen.m, l, avgSecs)
         printed == SelectSeq(r.out, SIsAvg) # <<>>
         member == SComplete(l) /\ Averaging
     IN sen' = [m |-> r.m,
                out |-> sen.out \o r.out,
                win |-> IF member
                        THEN (IF printed THEN <<l.f>> ELSE Append(sen.win, l.f))
                        ELSE (IF printed THEN <<>> ELSE sen.win),
                flushes |-> IF printed
                            THEN Append(sen.flushes,
                                        [members |-> sen.win, eof |-> FALSE,
                                         rd |-> nread + 1])
                            ELSE sen.flushes]

\* the lines of the GPS file of the pair: a fix at each elapsed time, a later
\* fix at the last elapsed time, a record without lock, a line cut short
\* and a text line
PairLines ==
  { DataLine(Record(t, FixAt(58), FixAt(58).nsats)) : t \in 0..MaxT }
    \cup { DataLine(Record(MaxT, FixAt(1), FixAt(1).nsats)),
           DataLine(Record(1, FixAt(59), 3)) }
    \cup { l \in ShortLines : l.nconv = 3 }
    \cup TextLines

\* both programs read their next line; hgps takes branch g and hsensor
\* branch b
PairRead(l, g, b) == Iterate(l, g) /\ SIterate(Companion(l), b)

\* hsensor.c line 87: not a data record
SPassText ==
  \E l \in PairLines : \E g \in GpsBranches : PairRead(l, g, "text")

\* hsensor.c line 97: insufficient data
SPassShort ==
  \E l \in PairLines : \E g \in GpsBranches : PairRead(l, g, "short")

\* hsensor.c line 102: no averaging
SPrintSingle ==
  \E l \in PairLines : \E g \in GpsBranches : PairRead(l, g, "single")

\* hsensor.c line 110: display the average of the last period
SNewPeriod ==
  \E l \in PairLines : \E g \in GpsBranches : PairRead(l, g, "period")

\* hsensor.c line 116: accumulate data for the next average
SAccumulate ==
  \E l \in PairLines : \E g \in GpsBranches : PairRead(l, g, "accumulate")

\* both files are exhausted: the code after the two loops
PairFinish ==
  /\ Exit
  /\ LET r == SAfterLoop(sen.m)
     IN sen' = [m |-> r.m,
                out |-> sen.out \o r.out,
                win |-> IF r.out # <<>> THEN <<>> ELSE sen.win,
                flushes |-> IF r.out # <<>>
                            THEN Append(sen.flushes,
                                        [members |-> sen.win, eof |-> TRUE,
                                         rd |-> nread + 1])
                            ELSE sen.flushes]

PairNext ==
  \/ SPassText
  \/ SPassShort
  \/ SPrintSingle
  \/ SNewPeriod
  \/ SAccumulate
  \/ PairFinish

PairSpec == PairInit /\ [][PairNext]_vars

TypeOK ==
  /\ pc \in {"start", "loop", "done", "failed", "undefined"}
  /\ nread \in 0..MaxLines
  /\ Len(out) <= MaxLines + 1
  /\ Len(src) = Len(out)

(***************************************************************************)
(* Properties                                                              *)
(***************************************************************************)
RECURSIVE SumInt(_, _)
\* the sum of the int field fld of the records of w
SumInt(w, fld) ==
  IF w = <<>> THEN 0 ELSE w[1][fld] + SumInt(Tail(w), fld)

RECURSIVE SumFloat(_, _)
\* the sum of the float field fld of the records of w
SumFloat(w, fld) ==
  IF w = <<>> THEN F(0) ELSE FAdd(w[1][fld], SumFloat(Tail(w), fld))

RECURSIVE SumNavg(_)
\* the sum of the member counts of the averaged lines of s
SumNavg(s) == IF s = <<>> THEN 0 ELSE s[1].navg + SumNavg(Tail(s))

DateOf(r) == <<r.mday, r.month, r.year>>

ClockOf(r) == <<r.hour, r.minute, r.second>>

\* the averaged lines printed so far; flushes[i] describes Averaged[i]
Averaged == AvgLines(out)

\* a step of the read loop that reads a valid record
ReadsValid == pc = "loop" /\ nread' = nread + 1 /\ Valid(str')

\* a window is open: the window start is set
WindowOpen == ~FLt(t0, F(0))

\* C1 (window count conservation): with averaging enabled, when the run has
\* ended the member counts of the averaged lines add up to the number of
\* valid records read, each averaged line counts the valid records read
\* since the averaged line before it, and no valid record is left over.
C1_CountConservation ==
  (pc = "done" /\ Averaging) =>
     LET a == Averaged
     IN /\ SumNavg(a) = Len(valids)
        /\ Len(flushes) = Len(a)
        /\ \A i \in 1..Len(flushes) : a[i].navg = Len(flushes[i].members)
        /\ win = <<>>

\* two windows, a record without lock between the valid ones
C1_Witness ==
  /\ pc = "done"
  /\ Averaging
  /\ Len(valids) = 2
  /\ nNoLock = 1
  /\ Len(Averaged) = 2

\* C2 (flush on boundary): with averaging enabled and a window open, a valid
\* record prints an averaged line exactly when its elapsed time exceeds the
\* window start by more than the window length; the line printed counts the
\* valid records read since the last averaged line, and the record becomes
\* the only member of the next window, which starts at its elapsed time.
\* Otherwise the record joins the open window and nothing is printed.
C2_FlushOnBoundary ==
  [][ (ReadsValid /\ Averaging /\ WindowOpen) =>
        LET r == RecordOf(str')
        IN IF FGt(FSub(r.tsecs, t0), avgSecs)
           THEN /\ Len(out') = Len(out) + 1
                /\ out'[Len(out')].kind = "avg"
                /\ out'[Len(out')].navg = Len(win)
                /\ navg' = 1
                /\ t0' = r.tsecs
                /\ avg'.tsecs = r.tsecs
                /\ DateOf(avg') = DateOf(r)
                /\ avg'.todaySecs = r.hour * 3600 + r.minute * 60 + r.second
           ELSE /\ out' = out
                /\ navg' = navg + 1
                /\ t0' = t0 ]_vars

\* the second record, exactly one window length after the first, has joined
\* the window of the first, and a third record has flushed the two
C2_Witness ==
  /\ Len(flushes) >= 1
  /\ ~flushes[1].eof
  /\ Len(flushes[1].members) = 2
  /\ FSub(flushes[1].members[2].tsecs, flushes[1].members[1].tsecs) = avgSecs
  /\ navg = 1

\* the averaged line o carries the members w: their number and their sums
\* divided by their number
Carries(o, w) ==
  /\ o.kind = "avg"
  /\ o.navg = Len(w)
  /\ o.tsecs = FDiv(SumFloat(w, "tsecs"), Len(w))
  /\ o.lat = FDiv(SumFloat(w, "lat"), Len(w))
  /\ o.lon = FDiv(SumFloat(w, "lon"), Len(w))
  /\ o.alt = FDiv(SumFloat(w, "alt"), Len(w))
  /\ o.nsats = SumInt(w, "nsats") \div Len(w)

\* C3 (end-of-file flush): when the input is exhausted, one averaged line is
\* printed if valid records were read since the last averaged line, and it
\* carries exactly those records; otherwise nothing is printed.
C3_EndOfFileFlush ==
  [][ (pc = "loop" /\ pc' = "done") =>
        IF win # <<>>
        THEN /\ Len(out') = Len(out) + 1
             /\ SubSeq(out', 1, Len(out)) = out
             /\ Carries(out'[Len(out')], win)
        ELSE out' = out ]_vars

\* the input has ended on a window of two records that follows another one
C3_Witness ==
  /\ pc = "done"
  /\ Len(flushes) = 2
  /\ flushes[2].eof
  /\ Len(flushes[2].members) = 2

\* the window w holds the three records of P6, in order
P6Window(w) ==
  /\ Len(w) = 3
  /\ ClockOf(w[1]) = <<23, 59, 58>>
  /\ ClockOf(w[2]) = <<23, 59, 59>>
  /\ ClockOf(w[3]) = <<0, 0, 1>>

\* C4 as stated (rollover correctness, P6): the averaged line of a window of
\* the records 23:59:58, 23:59:59, 00:00:01 has the time of day 86399 s taken
\* through the hour >= 24 path: it reports the decomposed hour minus 24 and
\* the date of the last record.
C4_RolloverAsStated ==
  \A i \in 1..Len(flushes) :
    P6Window(flushes[i].members) =>
      /\ Averaged[i].hour = (86399 \div 3600) - 24
      /\ Averaged[i].minute = 59
      /\ Averaged[i].second = 59
      /\ DateOf(Averaged[i]) = DateOf(flushes[i].members[3])

\* C4 as amended: the averaged line of a window of the records 23:59:58,
\* 23:59:59, 00:00:01 has the time of day 86399 s = 23:59:59 (the integer
\* mean of 86398, 86399 and 86401); the decomposed hour is 23, so that the
\* hour >= 24 path is not taken, and the line reports hour 23 and the date
\* of the first record.
C4_Rollover ==
  \A i \in 1..Len(flushes) :
    P6Window(flushes[i].members) =>
      LET a == Averaged
      IN /\ i <= Len(a)
         /\ a[i].navg = 3
         /\ a[i].hour * 3600 + a[i].minute * 60 + a[i].second
              = (86398 + 86399 + 86401) \div 3
         /\ ClockOf(a[i]) = <<23, 59, 59>>
         /\ DateOf(a[i]) = DateOf(flushes[i].members[1])

\* the three records of P6 were averaged, at increasing elapsed times, and
\* the first and the last are of different days
C4_Witness ==
  \E i \in 1..Len(flushes) :
    /\ P6Window(flushes[i].members)
    /\ FLt(flushes[i].members[1].tsecs, flushes[i].members[2].tsecs)
    /\ FLt(flushes[i].members[2].tsecs, flushes[i].members[3].tsecs)
    /\ DateOf(flushes[i].members[1]) # DateOf(flushes[i].members[3])

\* the window and the averaged lines are those of the run on the valid
\* records alone
SameAsClean ==
  /\ navg = clean.m.navg
  /\ t0 = clean.m.t0
  /\ avg = clean.m.avg
  /\ Averaged = clean.out

\* every line read that is not a valid record was printed as a comment
Commented ==
  \A i \in 1..Len(out) :
    out[i].kind = "comment" => ~Valid(out[i].line)

\* C5 (satellite filtering): a record of fewer than minSats satellites is
\* printed as a comment only, and the window and every averaged line are
\* what they are when the record is absent from the input.
C5_NoLockIgnored ==
  (nBad = 0) => (Commented /\ Len(out) >= nNoLock /\ SameAsClean)

\* a record is added to a window that has at least one member
JoinsWindow ==
  ReadsValid /\ Averaging /\ win # <<>> /\ win' = Append(win, RecordOf(str'))

\* seconds since midnight of record r, its hour moved by 24 when it is less
\* than ref
Rolled(r, ref) ==
  (IF r.hour < ref THEN r.hour + 24 ELSE r.hour) * 3600
    + r.minute * 60 + r.second

\* C6 as stated (rollover reference hour): a record added to a window that
\* has a member adds to the time-of-day sum its seconds since midnight, with
\* 24 hours more exactly when its hour is less than the hour of the record
\* added last.
C6_ReferenceAsStated ==
  [][ JoinsWindow =>
        avg'.todaySecs =
          avg.todaySecs + Rolled(RecordOf(str'), win[Len(win)].hour) ]_vars

\* C6 as amended: a record added to a window that has a member adds to the
\* time-of-day sum its seconds since midnight, with 24 hours more exactly
\* when its hour is less than the hour of the first record of the window.
C6_ReferenceHour ==
  [][ JoinsWindow =>
        /\ avg'.hour = win[1].hour
        /\ avg'.todaySecs =
             avg.todaySecs + Rolled(RecordOf(str'), win[1].hour) ]_vars

\* a window that starts before midnight holds two records after midnight:
\* the hour of the third is less than the first hour, not than the second
C6_Witness ==
  /\ pc = "loop"
  /\ navg = 3
  /\ Len(win) = 3
  /\ win[1].hour = 23
  /\ win[2].hour = 0
  /\ win[3].hour = 0

RECURSIVE SumRolled(_, _)
\* the time-of-day sum of the records w, against the hour ref
SumRolled(w, ref) ==
  IF w = <<>> THEN 0 ELSE Rolled(w[1], ref) + SumRolled(Tail(w), ref)

\* the hour decomposed from the integer average of the times of day of w
MeanHour(w) == (SumRolled(w, w[1].hour) \div Len(w)) \div 3600

\* C7 (date selection at flush): an averaged line whose decomposed hour is
\* 24 or more reports that hour minus 24 and the date of the record that
\* triggered the flush or, at the end of the input, of the last valid
\* record read; any other averaged line reports the date of the first
\* record of its window.
C7_DateSelection ==
  \A i \in 1..Len(flushes) :
    LET w == flushes[i].members
        latest == IF flushes[i].eof THEN valids[Len(valids)]
                  ELSE RecordOf(flushes[i].by[1])
    IN IF MeanHour(w) >= 24
       THEN /\ Averaged[i].hour = MeanHour(w) - 24
            /\ DateOf(Averaged[i]) = DateOf(latest)
       ELSE /\ Averaged[i].hour = MeanHour(w)
            /\ DateOf(Averaged[i]) = DateOf(w[1])

\* the unaveraged lines printed
IsRaw(o) == o.kind = "raw"

\* C8 (no-averaging identity): when the window length is <= 0, every line
\* read prints one line, the unaveraged lines are the valid records in
\* input order with their own values, the member count stays 0, the window
\* start stays unset and no averaged line is printed, at the end of input
\* either.
C8_NoAveragingIdentity ==
  ~Averaging =>
     LET single == SelectSeq(out, IsRaw)
     IN /\ navg = 0
        /\ t0 = F(-1)
        /\ Len(out) = nread
        /\ Averaged = <<>>
        /\ Len(single) = Len(valids)
        /\ \A i \in 1..Len(valids) :
             \A k \in 1..Len(Fields) :
               single[i][Fields[k]] = valids[i][Fields[k]]

\* a run with avg_secs = 0 has ended after two valid records and a comment
C8_Witness ==
  /\ avgSecs = F(0)
  /\ pc = "done"
  /\ Len(valids) = 2
  /\ nread = 3

\* C9 (recoverable per-line errors): a line that does not start with a digit
\* or is not a complete record is printed as a comment, and the window and
\* every averaged line are what they are when the line is absent from the
\* input.
C9_BadLinesIgnored ==
  (nNoLock = 0) => (Commented /\ Len(out) >= nBad /\ SameAsClean)

\* C10 (single-record window): the averaged line of a window of one record
\* has the values of that record in every field and the member count 1.
C10_SingleRecordWindow ==
  \A i \in 1..Len(flushes) :
    Len(flushes[i].members) = 1 =>
      LET a == Averaged
      IN /\ i <= Len(a)
         /\ a[i].navg = 1
         /\ \A k \in 1..Len(Fields) :
              a[i][Fields[k]] = flushes[i].members[1][Fields[k]]

\* windows of one record were flushed by the next record and by the end of
\* the input
C10_Witness ==
  /\ Len(flushes) >= 2
  /\ Len(flushes[1].members) = 1
  /\ ~flushes[1].eof
  /\ flushes[1].members[1].hour = 23
  /\ Len(flushes[Len(flushes)].members) = 1
  /\ flushes[Len(flushes)].eof


\* the two-digit years of the fields of the lines of the input
InputYears == { x.year : x \in Fixes } \cup { Garbled.year }

\* C13 (year normalisation): every data line printed, unaveraged or averaged,
\* the averaged line printed at the end of the input included, reports the
\* two-digit year of a record of the input plus 2000, never a two-digit year.
C13_YearNormalised ==
  \A i \in 1..Len(out) :
    (out[i].kind \in {"raw", "avg"}) =>
       (out[i].year >= 2000 /\ (out[i].year - 2000) \in InputYears)

RECURSIVE StartOf(_)
\* the place in valids of the first member of the window of flushes[k] (of
\* the open window, for k = Len(flushes) + 1)
StartOf(k) == IF k = 1 THEN 1 ELSE StartOf(k - 1) + Len(flushes[k - 1].members)

\* C15 (output ordering): at most one line is printed for each line read, in
\* the order of reading.  The windows are runs of successive valid records;
\* the averaged line of a window is printed when the valid record after its
\* last member is read, or at the end of the input, after every line printed
\* for the lines read before and before every line printed later, and when
\* the run has ended every window has its line.
C15_OutputOrdering ==
  /\ \A j \in 1..Len(src) : \A i \in 1..(j - 1) : src[i] < src[j]
  /\ \A k \in 1..Len(flushes) :
       LET w == flushes[k]
           s == StartOf(k)
           n == Len(w.members)
       IN /\ n >= 1
          /\ w.members = SubSeq(valids, s, s + n - 1)
          /\ out[w.at].kind = "avg"
          /\ out[w.at].navg = n
          /\ src[w.at] = w.rd
          /\ IF w.eof
             THEN pc = "done" /\ w.rd = nread + 1 /\ w.at = Len(out)
                  /\ k = Len(flushes)
             ELSE w.rd = validAt[s + n]
          /\ validAt[s + n - 1] < w.rd
          /\ \A j \in 1..Len(out) : (j < w.at) <=> (src[j] < w.rd)
          /\ (k > 1) => flushes[k - 1].at < w.at
  /\ Averaging =>
       win = SubSeq(valids, StartOf(Len(flushes) + 1), Len(valids))
  /\ (pc = "done" /\ Averaging) => StartOf(Len(flushes) + 1) = Len(valids) + 1

\* a comment line, then the averaged line of the first window, printed when
\* the second valid record was read, then the line of the second window,
\* printed at the end of the input
C15_Witness ==
  /\ Len(flushes) = 2
  /\ out[1].kind = "comment"
  /\ flushes[1].at = 2
  /\ flushes[1].rd = MaxLines
  /\ flushes[2].eof
  /\ flushes[2].at = 3

\* the elapsed times of the records of w never decrease
NonDecreasing(w) ==
  \A i \in 1..Len(w) : \A j \in i..Len(w) : FLe(w[i].tsecs, w[j].tsecs)

\* the members w of a window are within the window length of the first
InSpan(w) ==
  \A i \in 1..Len(w) :
    /\ FLe(w[1].tsecs, w[i].tsecs)
    /\ FLe(w[i].tsecs, FAdd(w[1].tsecs, avgSecs))

\* C16 (window span): when the elapsed times of the valid records never
\* decrease, every member of a window, printed or still open, has an elapsed
\* time from that of the first member to that plus the window length, and
\* the first members of successive windows are more than the window length
\* apart.
C16_WindowSpan ==
  (Averaging /\ NonDecreasing(valids)) =>
     /\ \A k \in 1..Len(flushes) : InSpan(flushes[k].members)
     /\ InSpan(win)
     /\ \A k \in 2..Len(flushes) :
          FGt(FSub(flushes[k].members[1].tsecs,
                   flushes[k - 1].members[1].tsecs), avgSecs)
     /\ (flushes # <<>> /\ win # <<>>) =>
          FGt(FSub(win[1].tsecs, flushes[Len(flushes)].members[1].tsecs),
              avgSecs)

\* a window whose second member is the whole window length after the first,
\* and the window opened by the record that ended it
C16_Witness ==
  /\ Averaging
  /\ NonDecreasing(valids)
  /\ Len(flushes) = 1
  /\ Len(flushes[1].members) = 2
  /\ flushes[1].members[2].tsecs = FAdd(flushes[1].members[1].tsecs, avgSecs)
  /\ Len(win) = 1
  /\ pc = "loop"

(***************************************************************************)
(* Properties of the pair hgps, hsensor                                    *)
(***************************************************************************)
\* the averaged lines hsensor has printed; sen.flushes[i] describes the i-th
SAveraged == SelectSeq(sen.out, SIsAvg)

\* the elapsed times of the records of w
Elapsed(w) == [i \in 1..Len(w) |-> w[i].tsecs]

\* C11 (sensor averaging follows the same window protocol): when every
\* complete GPS record has lock, hsensor prints its averaged lines at the
\* same reads as hgps, for windows of the same records with the same member
\* counts, the two have the same window open between reads, one averaged
\* line is printed at the end of the file when a record was read and none
\* otherwise, and each of the eighteen
\* fields of a sensor averaged line is the sum of the members' values divided
\* by their number.
C11_SameProtocol ==
  (sen # <<>> /\ Averaging /\ nNoLock = 0) =>
     LET a == Averaged
         sa == SAveraged
     IN /\ Len(sen.flushes) = Len(sa)
        /\ Len(sa) = Len(a)
        /\ sen.m.navg = navg
        /\ sen.m.t0 = t0
        /\ Elapsed(sen.win) = Elapsed(win)
        /\ (pc = "done" /\ valids # <<>>) =>
              (sa # <<>> /\ sen.flushes[Len(sa)].eof /\ sen.win = <<>>)
        /\ \A i \in 1..Len(sa) :
             /\ sen.flushes[i].rd = flushes[i].rd
             /\ sen.flushes[i].eof = flushes[i].eof
             /\ sen.flushes[i].eof => (i = Len(sa) /\ pc = "done")
             /\ Elapsed(sen.flushes[i].members) = Elapsed(flushes[i].members)
             /\ Len(sen.flushes[i].members) = a[i].navg
             /\ Len(sen.flushes[i].members) >= 1
             /\ \A fld \in SFieldSet :
                  sa[i].v[fld] = FDiv(SumFloat(sen.flushes[i].members, fld),
                                      Len(sen.flushes[i].members))

\* both have printed a window of two records on reading a third, and the last
\* window at the end of the files
C11_Witness ==
  /\ sen # <<>>
  /\ pc = "done"
  /\ nNoLock = 0
  /\ Len(SAveraged) = 2
  /\ Len(sen.flushes[1].members) = 2
  /\ ~sen.flushes[1].eof
  /\ sen.flushes[2].eof
  /\ Len(Averaged) = 2

\* a step of the read loop of hsensor that reads a complete record
SReadsRecord == pc = "loop" /\ nread' = nread + 1 /\ SComplete(Companion(str'))

\* the code after the loops
Ends == pc = "loop" /\ pc' = "done"

\* C17 (division guard): in both programs an averaged line is printed only
\* with a member count of at least 1, which is the divisor; showAverage
\* called with a count of 0 (by the first record of the run, or after the
\* loop when no record was averaged) prints nothing and leaves the averages
\* as they are.
C17_DivisionGuard ==
  [][ /\ (AvgLines(out') # AvgLines(out)) =>
           (navg >= 1 /\ out'[Len(out')].navg = navg)
      /\ (SelectSeq(sen'.out, SIsAvg) # SelectSeq(sen.out, SIsAvg)) =>
           (sen.m.navg >= 1 /\ sen.win # <<>>)
      /\ (ReadsValid /\ Averaging /\ navg = 0) =>
           (out' = out /\ avg' = updateAverage(0, raw', avg).avg)
      /\ (SReadsRecord /\ Averaging /\ sen.m.navg = 0) =>
           (sen'.out = sen.out
              /\ sen'.m.avg = SupdateAverage(0, sen'.m.raw, sen.m.avg).avg)
      /\ (Ends /\ navg = 0) =>
           (out' = out /\ avg' = avg /\ navg' = 0 /\ t0' = t0)
      /\ (Ends /\ sen.m.navg = 0) =>
           (sen'.out = sen.out /\ sen'.m = sen.m) ]_vars

\* both programs have ended, with averaging enabled, on files without a
\* record: their showAverage after the loop was called with a count of 0
C17_Witness ==
  /\ sen # <<>>
  /\ pc = "done"
  /\ Averaging
  /\ nread = MaxLines
  /\ navg = 0
  /\ sen.m.navg = 0
  /\ Averaged = <<>>
  /\ SAveraged = <<>>

\* the window start holds the value it is given before the loop
Unset(start) == FLt(start, F(0))

\* C20 (sentinel consistency): in the read loop of both programs the member
\* count is 0 exactly when the window start is the negative value set before
\* the loop, and a window start set from a record is not negative; the
\* branch taken when no window is open is taken by the first record averaged
\* only, and prints nothing.
C20_Sentinel ==
  /\ [](( sen # <<>> /\ pc = "loop") =>
          /\ (navg = 0) <=> Unset(t0)
          /\ (sen.m.navg = 0) <=> Unset(sen.m.t0)
          /\ (valids # <<>> /\ Averaging) => ~Unset(t0)
          /\ Unset(t0) => t0 = Locals0.t0
          /\ Unset(sen.m.t0) => sen.m.t0 = SLocals0.t0)
  /\ [][ /\ (ReadsValid /\ Averaging /\ Unset(t0)) =>
              (valids = <<>> /\ out' = out /\ navg' = 1 /\ ~Unset(t0'))
         /\ (SReadsRecord /\ Averaging /\ Unset(sen.m.t0)) =>
              (sen.win = <<>> /\ sen.flushes = <<>> /\ sen'.out = sen.out
                 /\ sen'.m.navg = 1 /\ ~Unset(sen'.m.t0)) ]_vars

\* both programs have read their first record and have opened a window
C20_Witness ==
  /\ sen # <<>>
  /\ pc = "loop"
  /\ Averaging
  /\ Len(valids) = 1
  /\ navg = 1
  /\ t0 = valids[1].tsecs
  /\ sen.m.navg = 1
  /\ sen.out = <<>>

(***************************************************************************)
(* Properties of hgps from the entry of main                               *)
(***************************************************************************)
\* a step of the read loop that reads the start of a line of the file
ReadsLine == pc = "loop" /\ rest = <<>> /\ nread' = nread + 1

\* a step of the read loop that reads what is left of a line of the file
ReadsTail == pc = "loop" /\ rest # <<>> /\ nread' = nread + 1

\* the line of the file of which a ReadsLine step has read the start
WholeLine == [str' EXCEPT !.more = rest']

\* C12 (passthrough fidelity): a line of the file that does not start with a
\* digit, of any length, is printed as one comment line holding the whole
\* line, after the lines printed before it, and nothing else is printed for
\* it.  (Lines of the file are at most 510 characters long.)
C12_PassthroughFidelity ==
  [][ /\ (ReadsLine /\ ~str'.digit) =>
           out' = Append(out, CommentLine(WholeLine))
      /\ (ReadsTail /\ ~str.digit) => out' = out ]_vars

\* C14 (fatal startup errors): with a wrong argument count or a file that
\* cannot be opened the program ends with failure status, and then it has
\* opened and read nothing and printed nothing, the invocation comment
\* included; otherwise the invocation comment is printed before any line is
\* read or printed, and the program ends with success status only when fgets
\* has found the end of the file, every line read has been processed in the
\* loop, and the file is closed.
C14_StartupErrors ==
  /\ (pc = "failed") <=> (pc # "start" /\ (argc # 4 \/ ~canOpen))
  /\ (pc = "failed") =>
        (banner = <<>> /\ out = <<>> /\ nread = 0 /\ file = "none")
  /\ (nread > 0 \/ out # <<>> \/ file # "none") =>
        banner = <<Invocation(avgSecs, minSats)>>
  /\ (pc = "loop") => file = "open"
  /\ (pc = "done") =>
        /\ file = "closed"
        /\ rest = <<>>
        /\ banner = <<Invocation(avgSecs, minSats)>>
        /\ \A i \in 1..nread :
             (i \in { validAt[k] : k \in 1..Len(validAt) }
                \/ \E k \in 1..Len(src) : src[k] = i /\ out[k].kind = "comment")

\* the file could not be opened, and the program has ended with failure
\* status
C14_Witness ==
  /\ pc = "failed"
  /\ argc = 4
  /\ ~canOpen
  /\ banner = <<>>

(***************************************************************************)
(* Properties of hgps on a long file                                       *)
(***************************************************************************)
\* C18 (integer accumulation): for records of hour 0 to 23, minute and second
\* 0 to 59 and a satellite count that is not negative, however many are in
\* one window, no addition to the sum of the times of day or to the sum of
\* the satellite counts leaves the range of int.
C18_NoOverflow == ~ub

\* the seconds of a day
DaySecs == SecsOf([hour |-> 24, minute |-> 0, second |-> 0])

\* C19 (reported time of day): every averaged line printed has an hour from
\* 0 to 23 and a minute and a second from 0 to 59, and the time of the line
\* printed at the end of the input is the averaged time of day left in avg,
\* less a day when that is a day or more.
C19_TimeInRange ==
  /\ \A i \in 1..Len(out) :
       (out[i].kind = "avg") =>
          /\ out[i].hour \in 0..23
          /\ out[i].minute \in 0..59
          /\ out[i].second \in 0..59
  /\ (pc = "done" /\ flushes # <<>>) =>
       SecsOf(out[Len(out)]) =
         IF avg.todaySecs >= DaySecs THEN avg.todaySecs - DaySecs
         ELSE avg.todaySecs

====
